---------------------------- MODULE Spec2Model ----------------------------
(***************************************************************************)
(* A model of the assessment aggregation and academic-year progression     *)
(* engine of the attainment tracker (src/app.py, src/models.py): the       *)
(* question-set reconciler (SpecRec), the progression engine (SpecPromo),  *)
(* the template versioner (SpecTpl) and the result aggregator (SpecSync),  *)
(* each a specification over the same tables.                              *)
(*                                                                         *)
(* Marks are Python floats in the code.  Here a mark is an integer number  *)
(* of ticks of 0.00002, so that 1.0 is One ticks and the code's            *)
(* round(x, 4) is rounding to the nearest multiple of Step = 5 ticks       *)
(* (an odd step: no value of the model lies on a rounding tie).            *)
(***************************************************************************)
EXTENDS Integers, Sequences, FiniteSets, TLC

VARIABLES
    aquestions,   \* table assessment_questions: rows [id, assessment_id, number, max_mark]
    years,        \* table academic_years: rows [id, label, is_current]
    classes,      \* table classes: id -> [year_group, is_archived, is_archive]
    pupils,       \* table pupils: id -> class_id
    history,      \* table pupil_class_history, in insertion order:
                  \* rows [pupil_id, class_id, academic_year_id]
    pc,           \* where admin_promote stands between its two commits
    quota,        \* promotions, class settings and question saves served so far
    steps,        \* number of requests served so far
    last,         \* the last request served: its name, inputs and what it read
    templates,    \* table paper_templates: rows [id, subject, paper,
                  \* academic_year_id, year_group, term, version, is_active]
    tquestions,   \* table paper_template_questions: rows [template_id, number, max_mark]
    assessments,  \* table assessments: id -> [class_id, academic_year_id, term,
                  \* subject, paper, template_id, template_version]
    scores,       \* table pupil_question_scores: rows [assessment_id, pupil_id,
                  \* question_id, mark]
    results,      \* table results: rows keyed (pupil_id, academic_year_id, term, subject)
    termconfigs   \* table term_configs: <<class_id, academic_year_id, term>> -> maxima

recVars == <<aquestions>>
promoVars == <<years, classes, pupils, history, pc, quota>>
tplVars == <<templates, tquestions>>
syncVars == <<assessments, scores, results, termconfigs>>

vars == <<aquestions, years, classes, pupils, history, pc, quota, steps, last,
          templates, tquestions, assessments, scores, results, termconfigs>>

---------------------------------------------------------------------------
(* Bounds of the model. *)

MaxQ == 6
MaxSteps == 3
NPupils == 2
MaxPromotions == 2
MaxSettings == 1

---------------------------------------------------------------------------
(* Numbers. *)

Places == 4
One == 5 * (10 ^ Places)
Step == One \div (10 ^ Places)

Abs(x) == IF x < 0 THEN -x ELSE x

Max(S) == CHOOSE x \in S : \A y \in S : y <= x

\* round(x, 4)
Round4(x) ==
    LET r == x % Step
    IN  IF 2 * r < Step THEN x - r ELSE x + (Step - r)

\* int(x): truncation toward zero, in whole marks
IntPart(x) == IF x >= 0 THEN x \div One ELSE -((-x) \div One)

RECURSIVE SumMarks(_)
SumMarks(S) ==
    IF S = {} THEN 0
    ELSE LET q == CHOOSE r \in S : TRUE
         IN  q.max_mark + SumMarks(S \ {q})

\* .order_by(AssessmentQuestion.number.asc()); rows of equal number in key order
RECURSIVE OrderByNumber(_)
OrderByNumber(S) ==
    IF S = {} THEN <<>>
    ELSE LET m == CHOOSE q \in S : \A r \in S :
                      \/ q.number < r.number
                      \/ (q.number = r.number /\ q.id <= r.id)
         IN  <<m>> \o OrderByNumber(S \ {m})

Range(s) == {s[i] : i \in DOMAIN s}

---------------------------------------------------------------------------
(* QuestionSetReconciler: ensure_questions_total_marks. *)

TheAssessment == 1

QuestionsOf(aid) == {q \in aquestions : q.assessment_id = aid}

NewQuestion(id, aid, n, m) ==
    [id |-> id, assessment_id |-> aid, number |-> n, max_mark |-> m]

\* the branch of an assessment with no question yet (it returns before the
\* renumbering)
SynthesizeQuestions(aid, T, fresh) ==
    LET whole == IntPart(T)
        remainder == Round4(T - whole * One)
        n == IF whole > 0 THEN whole ELSE 0
    IN  {NewQuestion(fresh + i - 1, aid, i, One) : i \in 1..whole}
        \cup (IF remainder > 0
              THEN {NewQuestion(fresh + n, aid, whole + 1, remainder)}
              ELSE {})

\* the while loop that appends whole-mark questions, and the final remainder
RECURSIVE AppendQuestions(_, _, _, _)
AppendQuestions(aid, remaining, last_no, fresh) ==
    IF remaining > One
    THEN {NewQuestion(fresh, aid, last_no + 1, One)}
         \cup AppendQuestions(aid, Round4(remaining - One), last_no + 1, fresh + 1)
    ELSE IF remaining > 0
         THEN {NewQuestion(fresh, aid, last_no + 1, remaining)}
         ELSE {}

\* (a variant that appends questions whatever the shortfall is)
GrowQuestionsAppendingOnly(aid, qs, total, T, fresh) ==
    Range(qs) \cup AppendQuestions(aid, Round4(T - total), qs[Len(qs)].number, fresh)

\* total < required_total
GrowQuestions(aid, qs, total, T, fresh) ==
    LET remaining == Round4(T - total)
        tail == qs[Len(qs)]
    IN  IF remaining <= One
        THEN (Range(qs) \ {tail})
             \cup {[tail EXCEPT !.max_mark = Round4(tail.max_mark + remaining)]}
        ELSE Range(qs) \cup AppendQuestions(aid, remaining, tail.number, fresh)

\* (a variant that deletes the boundary question instead of shrinking it)
RECURSIVE TrimQuestionsDroppingBoundary(_, _, _, _)
TrimQuestionsDroppingBoundary(qs, idx, running, T) ==
    IF idx >= 1 /\ running > T
    THEN IF running - qs[idx].max_mark >= T
         THEN TrimQuestionsDroppingBoundary(
                  qs, idx - 1, Round4(running - qs[idx].max_mark), T)
         ELSE {qs[i] : i \in 1..(idx - 1)}
    ELSE {qs[i] : i \in 1..idx}

\* total > required_total: the while loop from the tail
RECURSIVE TrimQuestions(_, _, _, _)
TrimQuestions(qs, idx, running, T) ==
    IF idx >= 1 /\ running > T
    THEN LET q == qs[idx]
             q_mark == q.max_mark
         IN  IF running - q_mark >= T
             THEN TrimQuestions(qs, idx - 1, Round4(running - q_mark), T)
             ELSE {qs[i] : i \in 1..(idx - 1)}
                  \cup {[q EXCEPT !.max_mark = Round4(T - (running - q_mark))]}
    ELSE {qs[i] : i \in 1..idx}

\* the final renumbering 1..N
Renumber(S) ==
    LET qs2 == OrderByNumber(S)
    IN  {[qs2[i] EXCEPT !.number = i] : i \in DOMAIN qs2}

\* the rows of assessment aid after ensure_questions_total_marks(aid, T)
EnsureQuestionsTotalMarks(aid, rows, T, fresh) ==
    LET qs == OrderByNumber(rows)
        total == SumMarks(rows)
    IN  IF rows = {} THEN SynthesizeQuestions(aid, T, fresh)
        ELSE IF total < T THEN Renumber(GrowQuestions(aid, qs, total, T, fresh))
        ELSE IF total > T THEN Renumber(TrimQuestions(qs, Len(qs), total, T))
        ELSE Renumber(rows)

\* the key SQLite gives the next row inserted into a table holding rows: the
\* largest key in the table plus one (the column is INTEGER PRIMARY KEY
\* without AUTOINCREMENT)
NextKey(rows) == Max({0} \cup {q.id : q \in rows}) + 1

---------------------------------------------------------------------------
(* Inputs of the reconciler's requests. *)

\* max marks a teacher types: 0.00004, 1.0 and 2.0
MarkSet == {2, One, 2 * One}

\* required totals: -1.0, 0, 0.5, 1.0, 2.5, 4.0
RecTotals == {0 - One, 0, One \div 2, One, 2 * One + One \div 2, 4 * One}

\* question numbers of a template: i, or 2i (numbers with gaps)
Strides == {1, 2}

MarkLists == UNION {[1..n -> MarkSet] : n \in 0..MaxQ}

NoOp == [op |-> "init", T |-> 0, pre |-> {}, repeat |-> FALSE]

NoQuota == [promotions |-> 0, settings |-> 0, saves |-> 0]

\* empty tables
NoTemplates == templates = {} /\ tquestions = {}

NoAssessments ==
    /\ assessments = <<>>
    /\ scores = {}
    /\ results = {}
    /\ termconfigs = <<>>

---------------------------------------------------------------------------
(* Requests. *)

\* ensure_assessment_questions_from_template: the assessment's questions are
\* replaced by copies of the template's (number and max mark as typed).  In
\* SpecRec the copy-in is the request that opens the assessment.
CopyInFromTemplate(marks, stride) ==
    /\ steps < MaxSteps
    /\ last.op = "init"
    /\ marks # <<>>
    /\ LET kept == aquestions \ QuestionsOf(TheAssessment)
       IN  aquestions' = kept
              \cup {NewQuestion(NextKey(kept) + i - 1, TheAssessment, stride * i,
                                marks[i]) : i \in DOMAIN marks}
    /\ steps' = steps + 1
    /\ last' = [op |-> "copy_in", T |-> 0, pre |-> QuestionsOf(TheAssessment),
                repeat |-> FALSE]
    /\ UNCHANGED <<promoVars, tplVars, syncVars>>

\* ensure_questions_total_marks(TheAssessment, T)
EnsureTotal(T) ==
    /\ steps < MaxSteps
    /\ LET rows == QuestionsOf(TheAssessment)
           after == EnsureQuestionsTotalMarks(TheAssessment, rows, T,
                                              NextKey(aquestions))
       IN  /\ aquestions' = (aquestions \ rows) \cup after
           /\ last' = [op |-> "ensure", T |-> T, pre |-> rows,
                       repeat |-> (last.op = "ensure" /\ last.T = T)]
    /\ steps' = steps + 1
    /\ UNCHANGED <<promoVars, tplVars, syncVars>>

InitRec ==
    /\ aquestions = {}
    /\ years = {}
    /\ classes = <<>>
    /\ pupils = <<>>
    /\ history = <<>>
    /\ pc = [at |-> "idle"]
    /\ quota = NoQuota
    /\ steps = 0
    /\ last = NoOp
    /\ NoTemplates
    /\ NoAssessments

NextRec ==
    \/ \E marks \in MarkLists, stride \in Strides : CopyInFromTemplate(marks, stride)
    \/ \E T \in RecTotals : EnsureTotal(T)

SpecRec == InitRec /\ [][NextRec]_vars

---------------------------------------------------------------------------
(* The reconciler's claims. *)

Tolerance == Step

NumbersOf(rows) == {q.number : q \in rows}

\* C1: after ensure_questions_total_marks(a, T) with T >= 0 the max marks of
\* a's questions sum to T within 1e-4 and the question numbers are exactly
\* 1..N, without gaps or duplicates.
C1_SumAndNumbering ==
    (last.op = "ensure" /\ last.T >= 0) =>
        LET rows == QuestionsOf(TheAssessment)
        IN  /\ Abs(SumMarks(rows) - last.T) <= Tolerance
            /\ NumbersOf(rows) = 1..Cardinality(rows)
            /\ \A q, r \in rows : q.number = r.number => q = r

\* C2: a second run of ensure_questions_total_marks right after a first run
\* with the same T leaves the questions, their max marks and their numbers
\* as they were.
C2_Idempotent ==
    (last.op = "ensure" /\ last.repeat) =>
        QuestionsOf(TheAssessment) = last.pre

\* C17: ensure_questions_total_marks(a, T) with T < 0 is rejected before any
\* row is touched: the questions of the assessment, their count, max marks
\* and numbers, are what they were before the call.
C17_NegativeTotalChangesNothing ==
    (last.op = "ensure" /\ last.T < 0) =>
        QuestionsOf(TheAssessment) = last.pre

\* the questions before the call and after it, in number order
Before == OrderByNumber(last.pre)
After == OrderByNumber(QuestionsOf(TheAssessment))

Shortfall == last.T - SumMarks(last.pre)

---------------------------------------------------------------------------
(* Academic years. *)

\* A label is a string in the code.  The model keeps what next_year_label_from
\* reads of it: whether it has the form \d{4}/\d{2}, its first four-digit
\* number (start) and the number after it (end).  "2025/26" is
\* StdLabel(2025, 26); "2025/2026", which YearForm accepts too, is
\* TextLabel(2025, 2026); a label with no four-digit number, as "Year One",
\* is PlainLabel.
StdLabel(a, b) == [form |-> "YYYY/YY", start |-> a, end |-> b]
TextLabel(a, b) == [form |-> "text", start |-> a, end |-> b]
PlainLabel == [form |-> "plain", start |-> 0, end |-> 0]

\* datetime.utcnow().year, at the requests the model makes
UtcYears == {2026}

\* (a variant that leaves the part after the slash as it is)
NextYearLabelKeepingEnd(label, utc_year) == StdLabel(label.start + 1, label.end)

\* next_year_label_from: f"{start + 1}/{end + 1:02d}" for a label of the form
\* YYYY/YY (the result has three digits after the slash when end is 99);
\* otherwise from the first four-digit number of the label, or from the
\* calendar year when the label has none
NextYearLabelFrom(label, utc_year) ==
    IF label.form = "YYYY/YY"
    THEN IF label.end + 1 < 100
         THEN StdLabel(label.start + 1, label.end + 1)
         ELSE TextLabel(label.start + 1, label.end + 1)
    ELSE LET fallback_start == IF label.form = "text" THEN label.start + 1
                               ELSE utc_year
         IN  StdLabel(fallback_start, (fallback_start + 1) % 100)

Min(S) == CHOOSE x \in S : \A y \in S : x <= y

YearById(id) == CHOOSE y \in years : y.id = id

\* get_current_year: the first year flagged current, else the first year;
\* its id, or NULL when the table is empty.  NULL stands for None and for
\* SQL NULL; keys are positive and the marks of the model are not negative.
NULL == 0 - 1

GetCurrentYear(ys) ==
    LET cur == {y.id : y \in {z \in ys : z.is_current}}
    IN  IF cur # {} THEN Min(cur)
        ELSE IF ys # {} THEN Min({y.id : y \in ys})
        ELSE NULL

\* (a variant that forgets the bulk update)
MakeCurrentKeepingOthers(ys, id) ==
    {[y EXCEPT !.is_current = (y.is_current \/ y.id = id)] : y \in ys}

\* AcademicYear.query.update({is_current: False}); year.is_current = True
MakeOnlyCurrent(ys, id) == {[y EXCEPT !.is_current = (y.id = id)] : y \in ys}

NewYearId(ys) == Max({0} \cup {y.id : y \in ys}) + 1

---------------------------------------------------------------------------
(* Classes. *)

\* range(1, 7) and promote_map
YearGroups == 1..6
\* (a variant in which Year 4 skips a year)
PromoteMapSkipping == [yg \in 1..5 |-> IF yg = 4 THEN 6 ELSE yg + 1]
PromoteMap == [yg \in 1..5 |-> yg + 1]

\* live_classes_query
LiveClasses(cs) == {c \in DOMAIN cs : ~cs[c].is_archived /\ ~cs[c].is_archive}

\* classes_by_year = {c.year_group: c for c in classes ...}: of the live
\* classes of one year group the last in (year_group, name) order stays; the
\* seeded names "Year 1" .. "Year 6" order as the ids do
ClassesByYear(cs) ==
    LET live == {c \in LiveClasses(cs) : cs[c].year_group # NULL}
    IN  [yg \in {cs[c].year_group : c \in live} |->
            Max({c \in live : cs[c].year_group = yg})]

\* (a variant that stops at year group 5)
MissingYearGroupsBelowSix(cs) ==
    {yg \in 1..5 : yg \notin DOMAIN ClassesByYear(cs)}

\* missing_year_groups
MissingYearGroups(cs) == {yg \in YearGroups : yg \notin DOMAIN ClassesByYear(cs)}

\* ensure_single_archive_class: the first class flagged is_archive is the
\* Archive class, with year_group NULL; further ones lose the flags; with
\* none, an Archive class is created.  (No other class is named "Archive":
\* the application never names or renames a class.)
ArchiveLike(cs) == {c \in DOMAIN cs : cs[c].is_archive}

ArchiveRow == [year_group |-> NULL, is_archived |-> TRUE, is_archive |-> TRUE]

EnsureSingleArchiveClass(cs) ==
    IF ArchiveLike(cs) # {}
    THEN LET archive == Min(ArchiveLike(cs))
         IN  [c \in DOMAIN cs |->
                IF c = archive THEN ArchiveRow
                ELSE IF c \in ArchiveLike(cs)
                     THEN [year_group |-> IF cs[c].year_group = 0 THEN NULL
                                          ELSE cs[c].year_group,
                           is_archived |-> FALSE, is_archive |-> FALSE]
                     ELSE cs[c]]
    ELSE LET id == Max({0} \cup DOMAIN cs) + 1
         IN  [c \in DOMAIN cs \cup {id} |-> IF c = id THEN ArchiveRow ELSE cs[c]]

ArchiveClass(cs) == Min(ArchiveLike(cs))

---------------------------------------------------------------------------
(* ProgressionEngine: admin_promote. *)

HistoryRow(p, c, y) == [pupil_id |-> p, class_id |-> c, academic_year_id |-> y]

\* (a variant that inserts without looking)
AddHistoryRowUnchecked(h, p, c, y) == Append(h, HistoryRow(p, c, y))

\* (a variant that rewrites the row the pupil has for the year)
AddHistoryRowReplacing(h, p, c, y) ==
    Append(SelectSeq(h, LAMBDA r : ~(r.pupil_id = p /\ r.academic_year_id = y)),
           HistoryRow(p, c, y))

\* add_history_row: insert unless the triple is there
AddHistoryRow(h, p, c, y) ==
    IF \E i \in DOMAIN h : h[i] = HistoryRow(p, c, y)
    THEN h
    ELSE Append(h, HistoryRow(p, c, y))

\* (a variant that sends the pupils of a class without a year group to the
\* Year 1 class)
PromotePupilFromArchive(st, p, cs, by_year, current_year, next_year) ==
    LET klass == st.pupils[p]
        yg == cs[klass].year_group
    IN  IF ~st.ok \/ klass \notin DOMAIN cs THEN st
        ELSE IF yg = NULL
        THEN [st EXCEPT !.pupils[p] = by_year[1]]
        ELSE IF yg = 6
        THEN [pupils |-> [st.pupils EXCEPT ![p] = ArchiveClass(cs)],
              history |-> AddHistoryRow(st.history, p, ArchiveClass(cs), next_year),
              ok |-> TRUE]
        ELSE IF yg \in DOMAIN PromoteMap /\ PromoteMap[yg] \in DOMAIN by_year
        THEN [pupils |-> [st.pupils EXCEPT ![p] = by_year[PromoteMap[yg]]],
              history |-> AddHistoryRow(st.history, p, by_year[PromoteMap[yg]],
                                        next_year),
              ok |-> TRUE]
        ELSE [st EXCEPT !.ok = FALSE]

\* One pass of the loop over all_pupils, for pupil p, on st = [pupils, history,
\* ok]; ok turns FALSE at the rollback of a missing destination.
PromotePupil(st, p, cs, by_year, current_year, next_year) ==
    LET klass == st.pupils[p]
        yg == cs[klass].year_group
        h1 == IF current_year # NULL
              THEN AddHistoryRow(st.history, p, klass, current_year)
              ELSE st.history
    IN  IF ~st.ok \/ klass \notin DOMAIN cs \/ yg = NULL THEN st
        ELSE IF yg = 6
        THEN [pupils |-> [st.pupils EXCEPT ![p] = ArchiveClass(cs)],
              history |-> AddHistoryRow(h1, p, ArchiveClass(cs), next_year),
              ok |-> TRUE]
        ELSE IF yg \in DOMAIN PromoteMap
        THEN IF PromoteMap[yg] \notin DOMAIN by_year
             THEN [st EXCEPT !.ok = FALSE]
             ELSE [pupils |-> [st.pupils EXCEPT ![p] = by_year[PromoteMap[yg]]],
                   history |-> AddHistoryRow(h1, p, by_year[PromoteMap[yg]], next_year),
                   ok |-> TRUE]
        ELSE [st EXCEPT !.history = h1]

\* for pupil in all_pupils, in key order
RECURSIVE PromoteAll(_, _, _, _, _, _)
PromoteAll(st, todo, cs, by_year, current_year, next_year) ==
    IF todo = {} THEN st
    ELSE LET p == Min(todo)
         IN  PromoteAll(PromotePupil(st, p, cs, by_year, current_year, next_year),
                        todo \ {p}, cs, by_year, current_year, next_year)

Idle == [at |-> "idle"]

Snapshot == [years |-> years, classes |-> classes, pupils |-> pupils,
             history |-> history]

\* GET /admin/promote: the preview
PromotePreview ==
    /\ pc.at = "idle"
    /\ last' = [op |-> "promote_preview", missing |-> MissingYearGroups(classes),
                pre |-> Snapshot]
    /\ UNCHANGED <<recVars, tplVars, syncVars, promoVars, steps>>

\* POST /admin/promote, confirmed, up to the commit inside
\* get_or_create_archive_class(): the abort on a missing year group, or the
\* switch to the next academic year
PromoteBegin ==
    /\ pc.at = "idle"
    /\ quota.promotions < MaxPromotions
    /\ quota' = [quota EXCEPT !.promotions = @ + 1]
    /\ \E utc_year \in UtcYears :
       LET missing == MissingYearGroups(classes)
           current_year == GetCurrentYear(years)
           source_label == IF current_year # NULL THEN YearById(current_year).label
                           ELSE StdLabel(2025, 26)
           next_label == NextYearLabelFrom(source_label, utc_year)
           found == {y.id : y \in {z \in years : z.label = next_label}}
           next_year == IF found # {} THEN Min(found) ELSE NewYearId(years)
           with_next == IF found # {} THEN years
                        ELSE years \cup {[id |-> next_year, label |-> next_label,
                                          is_current |-> TRUE]}
       IN  IF missing # {}
           THEN /\ last' = [op |-> "promote_aborted", missing |-> missing,
                            pre |-> Snapshot]
                /\ UNCHANGED <<years, classes, pupils, history, pc>>
           ELSE /\ years' = MakeOnlyCurrent(with_next, next_year)
                /\ classes' = EnsureSingleArchiveClass(classes)
                /\ pc' = [at |-> "reassign", current_year |-> current_year,
                          next_year |-> next_year, created |-> (found = {}),
                          by_year |-> ClassesByYear(classes), pre |-> Snapshot,
                          utc_year |-> utc_year]
                /\ last' = [op |-> "promote_begin", missing |-> missing,
                            pre |-> Snapshot]
                /\ UNCHANGED <<pupils, history>>
    /\ UNCHANGED <<recVars, tplVars, syncVars, steps>>

\* the rest of the request: the loop over all pupils and the final commit (or
\* the rollback of the loop's writes)
PromoteReassign ==
    /\ pc.at = "reassign"
    /\ LET st == PromoteAll([pupils |-> pupils, history |-> history, ok |-> TRUE],
                            DOMAIN pupils, classes, pc.by_year,
                            pc.current_year, pc.next_year)
       IN  /\ pupils' = IF st.ok THEN st.pupils ELSE pupils
           /\ history' = IF st.ok THEN st.history ELSE history
           /\ last' = [op |-> IF st.ok THEN "promote" ELSE "promote_rolled_back",
                       missing |-> {}, pre |-> pc.pre,
                       current_year |-> pc.current_year,
                       next_year |-> pc.next_year, created |-> pc.created,
                       utc_year |-> pc.utc_year]
    /\ pc' = Idle
    /\ UNCHANGED <<recVars, tplVars, syncVars, years, classes, quota, steps>>

\* POST /settings/class: a teacher sets the year group of the class
SettingsInputs == {<<4, 5>>, <<6, 7>>}

ClassSettings(c, yg) ==
    /\ pc.at = "idle"
    /\ quota.settings < MaxSettings
    /\ c \in LiveClasses(classes)
    /\ classes' = [classes EXCEPT ![c].year_group = yg]
    /\ quota' = [quota EXCEPT !.settings = @ + 1]
    /\ last' = [op |-> "settings"]
    /\ UNCHANGED <<recVars, tplVars, syncVars, years, pupils, history, pc, steps>>

\* POST /admin/years: add a year
AdminLabels == {TextLabel(2025, 2026), PlainLabel}

\* (a variant that leaves the flags of the other years alone)
AddedYearKeepingFlags(ys, y) == ys \cup {y}

\* the table after the new year y is added: a current one unsets the others
AddedYear(ys, y) ==
    IF y.is_current
    THEN {[z EXCEPT !.is_current = FALSE] : z \in ys} \cup {y}
    ELSE ys \cup {y}

AddYear(label, is_current) ==
    /\ pc.at = "idle"
    /\ \A y \in years : y.label # label
    /\ years' = AddedYear(years, [id |-> NewYearId(years), label |-> label,
                                  is_current |-> is_current])
    /\ last' = [op |-> "settings"]
    /\ UNCHANGED <<recVars, tplVars, syncVars, classes, pupils, history, pc, quota, steps>>

\* POST /admin/years: set the current year
SetCurrentYear(id) ==
    /\ pc.at = "idle"
    /\ years' = MakeOnlyCurrent(years, id)
    /\ last' = [op |-> "settings"]
    /\ UNCHANGED <<recVars, tplVars, syncVars, classes, pupils, history, pc, quota, steps>>

\* The seeded school: the year 2025/26, the classes Year 1 .. Year 6 (ids 1..6)
\* and the Archive class (id 7); pupils as teachers have added them
SeedClasses ==
    [c \in 1..7 |-> IF c = 7 THEN ArchiveRow
                    ELSE [year_group |-> c, is_archived |-> FALSE,
                          is_archive |-> FALSE]]

PupilStart == {4, 5, 6}

InitPromo ==
    /\ aquestions = {}
    /\ years = {[id |-> 1, label |-> StdLabel(2025, 26), is_current |-> TRUE]}
    /\ classes = SeedClasses
    /\ pupils \in [1..NPupils -> PupilStart]
    /\ history = <<>>
    /\ pc = Idle
    /\ quota = NoQuota
    /\ steps = 0
    /\ last = [op |-> "init"]
    /\ NoTemplates
    /\ NoAssessments

NextPromo ==
    \/ PromotePreview
    \/ PromoteBegin
    \/ PromoteReassign
    \/ \E in \in SettingsInputs : ClassSettings(in[1], in[2])
    \/ \E label \in AdminLabels, cur \in BOOLEAN : AddYear(label, cur)
    \/ \E y \in years : SetCurrentYear(y.id)

SpecPromo == InitPromo /\ [][NextPromo]_vars


---------------------------------------------------------------------------
(* The progression engine's claims. *)

HasHistory(h, p, c, y) == \E i \in DOMAIN h : h[i] = HistoryRow(p, c, y)

CurrentYears == {y \in years : y.is_current}

WasInYearSix(pre, p) == pre.classes[pre.pupils[p]].year_group = 6

LeaversArchived ==
    \A p \in DOMAIN last.pre.pupils :
        WasInYearSix(last.pre, p) =>
            /\ pupils[p] = ArchiveClass(classes)
            /\ classes[pupils[p]].is_archive
            /\ HasHistory(history, p, last.pre.pupils[p], last.current_year)
            /\ HasHistory(history, p, ArchiveClass(classes), last.next_year)

NextYearIsTheOnlyCurrent ==
    /\ CurrentYears = {YearById(last.next_year)}
    /\ last.created <=> (\A y \in last.pre.years : y.id # last.next_year)

EndingLabel == YearById(last.current_year).label
NewLabel == YearById(last.next_year).label

NoLiveClass(cs, yg) ==
    ~ \E c \in DOMAIN cs :
        ~cs[c].is_archived /\ ~cs[c].is_archive /\ cs[c].year_group = yg

\* C4: when a year group in 1..6 has no live class, the preview lists it as
\* missing and a confirmed promotion aborts without a write: classes of
\* pupils, academic years, current flags and history rows stay as they were.
C4_AbortWithoutWrites ==
    /\ last.op \in {"promote_preview", "promote_aborted", "promote_begin"} =>
          \A yg \in YearGroups : NoLiveClass(last.pre.classes, yg) => yg \in last.missing
    /\ (/\ last.op \in {"promote_aborted", "promote_begin"}
        /\ \E yg \in YearGroups : NoLiveClass(last.pre.classes, yg)) =>
          /\ Snapshot = last.pre
          /\ pc = Idle

C4_Witness ==
    /\ last.op = "promote_aborted"
    /\ 4 \in last.missing
    /\ \E p \in DOMAIN pupils : classes[pupils[p]].year_group \in YearGroups

Pending == {p \in DOMAIN pupils : classes[pupils[p]].year_group \in YearGroups}

\* C5: no committed state has the next academic year created or made current
\* while pupils are still to be reassigned and given their history rows.
C5_AllOrNothing ==
    (pc.at = "reassign" /\ Pending # {}) => years = pc.pre.years

\* C6: no two rows of pupil_class_history share (pupil, class, academic
\* year), after any number of promotions; an insert of a triple that is
\* there changes nothing.
C6_NoDuplicateHistory ==
    \A i, j \in DOMAIN history : history[i] = history[j] => i = j

C6_Witness ==
    /\ last.op = "promote"
    /\ quota.promotions = 2
    /\ \E p \in DOMAIN pupils :
          /\ pupils[p] # last.pre.pupils[p]
          /\ HasHistory(last.pre.history, p, last.pre.pupils[p], last.current_year)

YearGroupBefore(p) == last.pre.classes[last.pre.pupils[p]].year_group

\* C19: after a promotion that went through, every pupil who was in a class
\* of year group k in 1..5 is in a live class of year group k + 1 and has the
\* history row (pupil, that class, new year); and no pupil has moved up by
\* more than one year group.
C19_UpByExactlyOneYearGroup ==
    last.op = "promote" =>
        \A p \in DOMAIN last.pre.pupils :
            /\ YearGroupBefore(p) \in 1..5 =>
                   /\ pupils[p] \in LiveClasses(classes)
                   /\ classes[pupils[p]].year_group = YearGroupBefore(p) + 1
                   /\ HasHistory(history, p, pupils[p], last.next_year)
            /\ \/ pupils[p] = last.pre.pupils[p]
               \/ classes[pupils[p]].is_archive
               \/ classes[pupils[p]].year_group = YearGroupBefore(p) + 1

\* a second promotion has gone through, of a pupil who started in Year 4 and
\* is in the Year 6 class now
C19_Witness ==
    /\ last.op = "promote"
    /\ \E p \in DOMAIN pupils :
          /\ YearGroupBefore(p) = 5
          /\ classes[pupils[p]].year_group = 6
          /\ \E i \in DOMAIN history :
                /\ history[i].pupil_id = p
                /\ classes[history[i].class_id].year_group = 4

\* C20: after a promotion that went through, every pupil of the school has
\* the history row (pupil, the class the pupil was in just before, the
\* ending academic year).
C20_HistoryRowForEveryPupil ==
    last.op = "promote" =>
        \A p \in DOMAIN last.pre.pupils :
            HasHistory(history, p, last.pre.pupils[p], last.current_year)

\* C23: PupilClassHistory is append-only: no step updates or deletes a row
\* that is there, so the rows only grow.
C23_HistoryAppendOnly ==
    [][/\ Len(history') >= Len(history)
       /\ \A i \in DOMAIN history : history'[i] = history[i]]_vars

\* a second promotion has added rows after the rows of the first
C23_Witness ==
    /\ last.op = "promote"
    /\ last.pre.history # <<>>
    /\ Len(history) > Len(last.pre.history)
    /\ \A i \in DOMAIN last.pre.history : history[i] = last.pre.history[i]

---------------------------------------------------------------------------
(* TemplateVersioner: the /gap/templates requests. *)

MaxTemplates == 3

\* the scope tuple of a template
SameScope(t, u) ==
    /\ t.subject = u.subject
    /\ t.paper = u.paper
    /\ t.academic_year_id = u.academic_year_id
    /\ t.year_group = u.year_group
    /\ t.term = u.term

TemplateById(id) == CHOOSE t \in templates : t.id = id

\* func.max(PaperTemplate.version) over the scope of t, or 0
MaxVersion(ts, t) == Max({0} \cup {u.version : u \in {v \in ts : SameScope(v, t)}})

\* (a variant that forgets the scope)
DeactivateOthers(ts, t) ==
    {IF u.id # t.id THEN [u EXCEPT !.is_active = FALSE] ELSE u : u \in ts}

\* PaperTemplate.query.filter(id != t.id, <same scope>).update({is_active: False})
DeactivateSiblings(ts, t) ==
    {IF u.id # t.id /\ SameScope(u, t) THEN [u EXCEPT !.is_active = FALSE] ELSE u
        : u \in ts}

TemplateQuestionsOf(tq, id) == {q \in tq : q.template_id = id}

\* the loop that copies the questions of template from to template to
CopyTemplateQuestions(tq, from, to) ==
    tq \cup {[q EXCEPT !.template_id = to] : q \in TemplateQuestionsOf(tq, from)}

\* (a variant that retires the source whatever make_active says)
CloneTemplateRetiringSource(ts, source, make_active) ==
    LET new_t == [source EXCEPT !.id = NextKey(ts),
                                !.is_active = make_active,
                                !.version = source.version + 1]
    IN  {IF u.id = source.id
         THEN [u EXCEPT !.is_active = FALSE] ELSE u : u \in ts} \cup {new_t}

\* clone_template(source, make_active): the templates table afterwards
CloneTemplate(ts, source, make_active) ==
    LET new_t == [source EXCEPT !.id = NextKey(ts),
                                !.is_active = make_active,
                                !.version = (IF source.version # 0
                                             THEN source.version ELSE 1) + 1]
    IN  {IF u.id = source.id /\ make_active
         THEN [u EXCEPT !.is_active = FALSE] ELSE u : u \in ts} \cup {new_t}

\* what the forms of the model send: maths Arithmetic templates of year
\* group 6, for two terms
TemplateScopes ==
    {[subject |-> "maths", paper |-> "Arithmetic", year_group |-> 6, term |-> term]
        : term \in {"Autumn", "Spring"}}

\* qn[] and max[] of the template editor
TemplateQuestionLists ==
    {<<>>, <<[number |-> 1, max_mark |-> One]>>,
     <<[number |-> 2, max_mark |-> One], [number |-> 4, max_mark |-> 2 * One]>>}

\* POST /gap/templates/new
GapTemplateNew(scope, year_id, copy_from_id) ==
    /\ Cardinality(templates) < MaxTemplates
    /\ LET key == [subject |-> scope.subject, paper |-> scope.paper,
                   academic_year_id |-> year_id,
                   year_group |-> scope.year_group, term |-> scope.term]
           next_version == 1 + MaxVersion(templates, key)
           t == [id |-> NextKey(templates), subject |-> scope.subject,
                 paper |-> scope.paper, academic_year_id |-> year_id,
                 year_group |-> scope.year_group, term |-> scope.term,
                 version |-> next_version, is_active |-> TRUE]
       IN  /\ templates' = DeactivateSiblings(templates \cup {t}, t)
           /\ tquestions' = IF copy_from_id # 0
                            THEN CopyTemplateQuestions(tquestions, copy_from_id, t.id)
                            ELSE tquestions
           /\ last' = [op |-> "template_new", template |-> t.id, pre |-> templates]
    /\ UNCHANGED <<recVars, syncVars, promoVars, steps>>

\* (a variant that deletes the questions of every version of the scope)
GapTemplateEditWholeScope(id, qs) ==
    /\ tquestions' =
          {q \in tquestions :
              ~SameScope(TemplateById(q.template_id), TemplateById(id))}
          \cup {[template_id |-> id, number |-> qs[i].number,
                 max_mark |-> qs[i].max_mark] : i \in DOMAIN qs}
    /\ last' = [op |-> "template_edit", template |-> id, pre |-> templates]
    /\ UNCHANGED <<recVars, syncVars, promoVars, steps, templates>>

\* POST /gap/templates/<id>: the questions of the template are replaced
GapTemplateEdit(id, qs) ==
    /\ tquestions' = (tquestions \ TemplateQuestionsOf(tquestions, id))
          \cup {[template_id |-> id, number |-> qs[i].number,
                 max_mark |-> qs[i].max_mark] : i \in DOMAIN qs}
    /\ last' = [op |-> "template_edit", template |-> id, pre |-> templates]
    /\ UNCHANGED <<recVars, syncVars, promoVars, steps, templates>>

\* POST /gap/templates/<id>/publish
GapTemplatePublish(id) ==
    /\ LET t == TemplateById(id)
       IN  templates' = {IF u.id = id THEN [u EXCEPT !.is_active = TRUE] ELSE u
                            : u \in DeactivateSiblings(templates, t)}
    /\ last' = [op |-> "publish", template |-> id, pre |-> templates]
    /\ UNCHANGED <<recVars, syncVars, promoVars, steps, tquestions>>

\* POST /gap/templates/<id>/new_version: clone_template(t, make_active=True)
GapTemplateNewVersion(id) ==
    /\ Cardinality(templates) < MaxTemplates
    /\ templates' = CloneTemplate(templates, TemplateById(id), TRUE)
    /\ tquestions' = CopyTemplateQuestions(tquestions, id, NextKey(templates))
    /\ last' = [op |-> "new_version", template |-> id, pre |-> templates]
    /\ UNCHANGED <<recVars, syncVars, promoVars, steps>>

\* POST /gap/templates/<id>/copy_to_next_year
GapTemplateCopyNextYear(id, utc_year) ==
    /\ Cardinality(templates) < MaxTemplates
    /\ LET t == TemplateById(id)
           ny_label == NextYearLabelFrom(YearById(t.academic_year_id).label, utc_year)
           found == {y.id : y \in {z \in years : z.label = ny_label}}
           ny == IF found # {} THEN Min(found) ELSE NewYearId(years)
           cp == [t EXCEPT !.id = NextKey(templates),
                           !.academic_year_id = ny,
                           !.version = 1 + MaxVersion(templates,
                                                      [t EXCEPT !.academic_year_id = ny]),
                           !.is_active = TRUE]
       IN  /\ years' = IF found # {} THEN years
                       ELSE years \cup {[id |-> ny, label |-> ny_label,
                                         is_current |-> FALSE]}
           /\ templates' = DeactivateSiblings(templates \cup {cp}, cp)
           /\ tquestions' = CopyTemplateQuestions(tquestions, id, cp.id)
           /\ last' = [op |-> "copy_next_year", template |-> id, pre |-> templates]
    /\ UNCHANGED <<recVars, syncVars, classes, pupils, history, pc, quota, steps>>

InitTpl ==
    /\ aquestions = {}
    /\ years = {[id |-> 1, label |-> StdLabel(2025, 26), is_current |-> TRUE]}
    /\ classes = SeedClasses
    /\ pupils = <<>>
    /\ history = <<>>
    /\ pc = Idle
    /\ quota = NoQuota
    /\ steps = 0
    /\ last = [op |-> "init"]
    /\ NoTemplates
    /\ NoAssessments

NextTpl ==
    \/ \E scope \in TemplateScopes, y \in years,
          copy_from_id \in {0} \cup {t.id : t \in templates} :
            GapTemplateNew(scope, y.id, copy_from_id)
    \/ \E t \in templates, qs \in TemplateQuestionLists : GapTemplateEdit(t.id, qs)
    \/ \E t \in templates : GapTemplatePublish(t.id)
    \/ \E t \in templates : GapTemplateNewVersion(t.id)
    \/ \E t \in templates, utc_year \in UtcYears : GapTemplateCopyNextYear(t.id, utc_year)

SpecTpl == InitTpl /\ [][NextTpl]_vars

\* C30: a promotion leaves every pupil whose class has no year group (the
\* Archive class) or a year group outside 1..6 in that class; a pupil who
\* was in Archive before a promotion is in Archive after it.
C30_ArchivedStayArchived ==
    last.op \in {"promote", "promote_aborted", "promote_rolled_back"} =>
        \A p \in DOMAIN last.pre.pupils :
            LET klass == last.pre.pupils[p]
            IN  /\ classes[klass].year_group \notin YearGroups => pupils[p] = klass
                /\ klass = ArchiveClass(classes) => pupils[p] = ArchiveClass(classes)

\* a second promotion: a pupil archived by the first one is in Archive, and
\* another pupil has moved
C30_Witness ==
    /\ last.op = "promote"
    /\ \E p, q \in DOMAIN pupils :
          /\ last.pre.pupils[p] = ArchiveClass(classes)
          /\ HasHistory(last.pre.history, p, ArchiveClass(classes), last.current_year)
          /\ pupils[p] = ArchiveClass(classes)
          /\ pupils[q] # last.pre.pupils[q]

---------------------------------------------------------------------------
(* The template versioner's claims. *)

ActiveInScope(ts, t) == {u \in ts : SameScope(u, t) /\ u.is_active}

\* C7: after any sequence of template requests (new template, publish, new
\* version from any existing version, copy to next year) every scope that
\* holds a template holds exactly one active template.
C7_OneActivePerScope ==
    \A t \in templates : Cardinality(ActiveInScope(templates, t)) = 1

\* C8: after publish(t2), t2 is active and every other template of its scope
\* (the one that was active before among them) is inactive, and the templates
\* of other scopes are as they were.
C8_PublishSwitchesActive ==
    last.op = "publish" =>
        LET t2 == TemplateById(last.template)
        IN  /\ ActiveInScope(templates, t2) = {t2}
            /\ \A u \in templates : ~SameScope(u, t2) => u \in last.pre
            /\ {u.id : u \in templates} = {u.id : u \in last.pre}

C8_Witness ==
    /\ last.op = "publish"
    /\ \E t1 \in last.pre :
          /\ t1.id # last.template
          /\ SameScope(t1, TemplateById(last.template))
          /\ t1.is_active
    /\ \E u \in templates : ~SameScope(u, TemplateById(last.template)) /\ u.is_active

---------------------------------------------------------------------------
(* Subjects, papers, maxima and bands. *)

TERMS == <<"Autumn", "Spring", "Summer">>
SUBJECTS == <<"maths", "reading", "spag">>
PAPERS == [maths |-> <<"Arithmetic", "Reasoning">>,
           reading |-> <<"Paper 1", "Paper 2">>,
           spag |-> <<"Spelling", "Grammar">>]

\* (value or "").strip().lower(), for the spellings the model sends; None and
\* any other text come out as text that is no subject
Lowered(value) ==
    IF value \in {"maths", "Maths", " maths "} THEN "maths"
    ELSE IF value \in {"reading", "READING"} THEN "reading"
    ELSE IF value \in {"spag", "SPaG"} THEN "spag"
    ELSE "other"

\* what abort(404) leaves in place of a subject, of a band and of a number
Abort404 == "abort(404)"
Aborted == 0 - 404

\* normalize_subject: the subject in lower case, or abort(404)
NormalizeSubject(value) ==
    IF \E i \in DOMAIN SUBJECTS : SUBJECTS[i] = Lowered(value)
    THEN Lowered(value)
    ELSE Abort404

ARITH_MAX == 38
REASON_MAX == 35
READING_P1_MAX == 40
READING_P2_MAX == 40
SPAG_SPELLING_MAX == 40
SPAG_GRAMMAR_MAX == 40

\* the six (subject, paper) pairs, with the Result column, the TermConfig
\* column and the configured default of each
PaperTable ==
    {[subject |-> "maths", paper |-> "Arithmetic", field |-> "arithmetic",
      cfg |-> "arith_max", default |-> ARITH_MAX],
     [subject |-> "maths", paper |-> "Reasoning", field |-> "reasoning",
      cfg |-> "reason_max", default |-> REASON_MAX],
     [subject |-> "reading", paper |-> "Paper 1", field |-> "reading_p1",
      cfg |-> "reading_p1_max", default |-> READING_P1_MAX],
     [subject |-> "reading", paper |-> "Paper 2", field |-> "reading_p2",
      cfg |-> "reading_p2_max", default |-> READING_P2_MAX],
     [subject |-> "spag", paper |-> "Spelling", field |-> "spelling",
      cfg |-> "spelling_max", default |-> SPAG_SPELLING_MAX],
     [subject |-> "spag", paper |-> "Grammar", field |-> "grammar",
      cfg |-> "grammar_max", default |-> SPAG_GRAMMAR_MAX]}

PaperRows(subject, paper) ==
    {e \in PaperTable : e.subject = subject /\ e.paper = paper}

PaperRow(subject, paper) == CHOOSE e \in PaperRows(subject, paper) : TRUE

\* result_field_for_paper: "arithmetic" for a pair it does not know
ResultFieldForPaper(subject, paper) ==
    IF PaperRows(subject, paper) # {} THEN PaperRow(subject, paper).field
    ELSE "arithmetic"

\* get_term_max_for_paper, in ticks: the TermConfig column when the row is
\* there and the column is not NULL, else the configured default, else 0.0
GetTermMaxForPaper(class_id, academic_year_id, term, raw_subject, paper) ==
    LET subject == NormalizeSubject(raw_subject)
        key == <<class_id, academic_year_id, term>>
        known == PaperRows(subject, paper) # {}
    IN  IF subject = Abort404 THEN Aborted
        ELSE IF /\ key \in DOMAIN termconfigs
                /\ known
                /\ termconfigs[key][PaperRow(subject, paper).cfg] # NULL
        THEN termconfigs[key][PaperRow(subject, paper).cfg]
        ELSE IF known THEN PaperRow(subject, paper).default * One
        ELSE 0

\* get_result_scores
GetResultScores(r, subject) ==
    IF subject = "maths" THEN <<r.arithmetic, r.reasoning>>
    ELSE IF subject = "reading" THEN <<r.reading_p1, r.reading_p2>>
    ELSE <<r.spelling, r.grammar>>

\* BAND_THRESHOLDS, in tenths of a percent
BAND_THRESHOLDS ==
    [maths |-> [wts_max |-> 550, ot_max |-> 750],
     reading |-> [wts_max |-> 650, ot_max |-> 850],
     spag |-> [wts_max |-> 650, ot_max |-> 850]]

\* (a variant whose comparisons include the threshold)
ComputeBandInclusive(pct, raw_subject) ==
    LET thresholds == BAND_THRESHOLDS[NormalizeSubject(raw_subject)]
    IN  IF NormalizeSubject(raw_subject) = Abort404 THEN Abort404
        ELSE IF pct <= thresholds.wts_max THEN "Working towards ARE"
        ELSE IF pct <= thresholds.ot_max THEN "Working at ARE"
        ELSE "Exceeding ARE"

\* compute_band_from_pct, pct in tenths of a percent
ComputeBandFromPct(pct, raw_subject) ==
    LET subject == NormalizeSubject(raw_subject)
        thresholds == IF subject \in DOMAIN BAND_THRESHOLDS
                      THEN BAND_THRESHOLDS[subject]
                      ELSE BAND_THRESHOLDS["maths"]
    IN  IF subject = Abort404 THEN Abort404
        ELSE IF pct < thresholds.wts_max THEN "Working towards ARE"
        ELSE IF pct < thresholds.ot_max THEN "Working at ARE"
        ELSE "Exceeding ARE"

\* (a variant that drops what follows the first decimal)
TruncatePct(num, den) ==
    LET r0 == num % den
        r1 == (10 * r0) % den
        r2 == (10 * r1) % den
    IN  1000 * (num \div den) + 100 * ((10 * r0) \div den)
        + 10 * ((10 * r1) \div den) + (10 * r2) \div den

\* round(num / den * 100.0, 1), in tenths of a percent: the nearest tenth,
\* the even one on a tie
RoundPct(num, den) ==
    LET r0 == num % den
        r1 == (10 * r0) % den
        r2 == (10 * r1) % den
        q == 1000 * (num \div den) + 100 * ((10 * r0) \div den)
             + 10 * ((10 * r1) \div den) + (10 * r2) \div den
        r == (10 * r2) % den
    IN  IF 2 * r < den THEN q
        ELSE IF 2 * r > den THEN q + 1
        ELSE IF q % 2 = 0 THEN q ELSE q + 1

\* compute_combined_and_band after its first test: the scores with None read
\* as 0.0, over the two maxima of the subject
CombinedOfScores(arith, reason, klass_id, term, year_id, raw_subject) ==
    IF NormalizeSubject(raw_subject) = Abort404 THEN <<Aborted, Abort404>>
    ELSE LET a == IF arith = NULL THEN 0 ELSE arith
             b == IF reason = NULL THEN 0 ELSE reason
             subject == NormalizeSubject(raw_subject)
             total_max ==
                 GetTermMaxForPaper(klass_id, year_id, term, subject, PAPERS[subject][1])
                 + GetTermMaxForPaper(klass_id, year_id, term, subject, PAPERS[subject][2])
             combined_pct == IF total_max > 0 THEN RoundPct(a + b, total_max) ELSE 0
         IN  <<combined_pct, ComputeBandFromPct(combined_pct, subject)>>

\* (a variant that gives up when either score is missing)
ComputeCombinedEitherMissing(arith, reason, klass_id, term, year_id, raw_subject) ==
    IF arith = NULL \/ reason = NULL THEN <<NULL, "None">>
    ELSE CombinedOfScores(arith, reason, klass_id, term, year_id, raw_subject)

\* compute_combined_and_band: <<combined_pct, summary>>
ComputeCombinedAndBand(arith, reason, klass_id, term, year_id, raw_subject) ==
    IF arith = NULL /\ reason = NULL THEN <<NULL, "None">>
    ELSE CombinedOfScores(arith, reason, klass_id, term, year_id, raw_subject)

---------------------------------------------------------------------------
(* Assessments and their questions. *)

MaxSaves == 2

\* (a variant that takes the newest template of the scope, active or not)
GetNewestTemplate(subject, paper, year_id, year_group, term) ==
    LET key == [subject |-> subject, paper |-> paper, academic_year_id |-> year_id,
                year_group |-> year_group, term |-> term]
        scope == {t \in templates : SameScope(t, key)}
        newest == {t \in scope : \A u \in scope : u.version <= t.version}
    IN  IF scope = {} THEN NULL ELSE Min({t.id : t \in newest})

\* get_active_template: the active template of the scope with the highest
\* version (the one of lowest key among equals), or NULL
GetActiveTemplate(subject, paper, year_id, year_group, term) ==
    LET key == [subject |-> subject, paper |-> paper, academic_year_id |-> year_id,
                year_group |-> year_group, term |-> term]
        active == {t \in templates : SameScope(t, key) /\ t.is_active}
        newest == {t \in active : \A u \in active : u.version <= t.version}
    IN  IF active = {} THEN NULL ELSE Min({t.id : t \in newest})

\* ensure_assessment_questions_from_template: the assessment_questions table
\* afterwards
EnsureAssessmentQuestionsFromTemplate(rows, aid, template_id) ==
    LET template_questions == TemplateQuestionsOf(tquestions, template_id)
        kept == {q \in rows : q.assessment_id # aid}
        order == OrderByNumber({[id |-> q.number, number |-> q.number,
                                 max_mark |-> q.max_mark] : q \in template_questions})
    IN  IF template_id = NULL \/ template_questions = {} THEN rows
        ELSE kept \cup {NewQuestion(NextKey(kept) + i - 1, aid, order[i].number,
                                    order[i].max_mark) : i \in DOMAIN order}

\* get_or_create_assessment_for, on st = [assessments, aquestions, a]: the
\* tables afterwards and the key of the assessment
GetOrCreateAssessmentFor(st, klass_id, year_id, term, subject, paper) ==
    LET template == IF classes[klass_id].year_group \notin {NULL, 0}
                    THEN GetActiveTemplate(subject, paper, year_id,
                                           classes[klass_id].year_group, term)
                    ELSE NULL
        version == IF template # NULL THEN TemplateById(template).version
                   ELSE NULL
        row == [class_id |-> klass_id, academic_year_id |-> year_id, term |-> term,
                subject |-> subject, paper |-> paper, template_id |-> template,
                template_version |-> version]
        found == {a \in DOMAIN st.assessments :
                     [st.assessments[a] EXCEPT !.template_id = template,
                                               !.template_version = version] = row}
        a == IF found # {} THEN Min(found) ELSE Max({0} \cup DOMAIN st.assessments) + 1
        table == IF found = {}
                 THEN [x \in DOMAIN st.assessments \cup {a} |->
                          IF x = a THEN row ELSE st.assessments[x]]
                 ELSE IF template # NULL /\ st.assessments[a].template_id # template
                 THEN [st.assessments EXCEPT ![a].template_id = template,
                                             ![a].template_version = version]
                 ELSE st.assessments
    IN  [assessments |-> table,
         aquestions |-> EnsureAssessmentQuestionsFromTemplate(
                            st.aquestions, a, table[a].template_id),
         a |-> a]

\* the pairs (term, paper) of one subject, in the order of the loops
GapLinks(subject) ==
    [i \in 1..(Len(TERMS) * 2) |->
        <<TERMS[((i - 1) \div 2) + 1], PAPERS[subject][((i - 1) % 2) + 1]>>]

RECURSIVE GetOrCreateAll(_, _, _, _, _)
GetOrCreateAll(st, klass_id, year_id, subject, todo) ==
    IF todo = <<>> THEN st
    ELSE GetOrCreateAll(
             GetOrCreateAssessmentFor(st, klass_id, year_id, todo[1][1], subject,
                                      todo[1][2]),
             klass_id, year_id, subject, Tail(todo))

\* classes whose teachers and admin the model follows, and the subject they
\* look at
DashboardClasses == {6}
DashboardSubjects == {"maths"}

\* GET /dashboard/<subject> of a class, for the current year: the links to
\* the GAP analyses create the assessments of the year
Dashboard(klass_id, subject) ==
    /\ pc.at = "idle"
    /\ GetCurrentYear(years) # NULL
    /\ LET st == GetOrCreateAll([assessments |-> assessments,
                                 aquestions |-> aquestions, a |-> NULL],
                                klass_id, GetCurrentYear(years), subject,
                                GapLinks(subject))
       IN  /\ assessments' = st.assessments
           /\ aquestions' = st.aquestions
    /\ last' = [op |-> "dashboard"]
    /\ UNCHANGED <<promoVars, tplVars, scores, results, termconfigs, steps>>

\* max[] of the question editor, in the order of qn[]: one question of 40
\* marks, or two of 19
EntryLists == {<<40 * One>>, <<19 * One, 19 * One>>}

\* POST /assessments/<id>/questions
AssessmentQuestionsPost(aid, entries) ==
    /\ pc.at = "idle"
    /\ quota.saves < MaxSaves
    /\ quota' = [quota EXCEPT !.saves = @ + 1]
    /\ LET a == assessments[aid]
           kept == aquestions \ QuestionsOf(aid)
           typed == {NewQuestion(NextKey(kept) + i - 1, aid, i, entries[i])
                        : i \in DOMAIN entries}
           required_total == GetTermMaxForPaper(a.class_id, a.academic_year_id,
                                                a.term, a.subject, a.paper)
       IN  aquestions' = kept \cup EnsureQuestionsTotalMarks(
                                      aid, typed, required_total,
                                      NextKey(kept \cup typed))
    /\ last' = [op |-> "questions", assessment |-> aid]
    /\ UNCHANGED <<years, classes, pupils, history, pc, tplVars, syncVars, steps>>

---------------------------------------------------------------------------
(* ResultAggregator: sync_assessment_totals_to_results. *)

RECURSIVE SumScoreMarks(_)
SumScoreMarks(S) ==
    IF S = {} THEN 0
    ELSE LET x == CHOOSE r \in S : TRUE
         IN  x.mark + SumScoreMarks(S \ {x})

\* (a variant that takes every pupil of the school)
AllPupils(ps, class_id) == DOMAIN ps

\* Pupil.query.filter_by(class_id=a.class_id)
PupilsOfClass(ps, class_id) == {p \in DOMAIN ps : ps[p] = class_id}

\* (a variant that counts the scores of questions that are gone, too)
AllScoresOf(sc, aid, pupil_id, q_by_id) ==
    {x \in sc : x.assessment_id = aid /\ x.pupil_id = pupil_id}

\* the scores the loop over scores adds to totals[pupil_id]
CountedScores(sc, aid, pupil_id, q_by_id) ==
    {x \in sc : /\ x.assessment_id = aid
                /\ x.pupil_id = pupil_id
                /\ x.question_id \in q_by_id}

ResultKey(r) == <<r.pupil_id, r.academic_year_id, r.term, r.subject>>

\* Result(pupil_id, academic_year_id, term, class_id_snapshot, subject)
NewResult(pupil_id, academic_year_id, term, class_id, subject) ==
    [pupil_id |-> pupil_id, academic_year_id |-> academic_year_id, term |-> term,
     subject |-> subject, class_id_snapshot |-> class_id,
     arithmetic |-> NULL, reasoning |-> NULL, reading_p1 |-> NULL,
     reading_p2 |-> NULL, spelling |-> NULL, grammar |-> NULL,
     combined_pct |-> NULL, summary |-> "None", updated_by_teacher_id |-> NULL]

\* the body of the loop over the pupils of the class: the Result row of
\* pupil p after the sync
SyncedResult(rs, sc, aid, p) ==
    LET a == assessments[aid]
        field == ResultFieldForPaper(a.subject, a.paper)
        q_by_id == {q.id : q \in QuestionsOf(aid)}
        total_mark == SumScoreMarks(CountedScores(sc, aid, p, q_by_id))
        key == <<p, a.academic_year_id, a.term, a.subject>>
        old == {r \in rs : ResultKey(r) = key}
        r0 == IF old # {} THEN CHOOSE r \in old : TRUE
              ELSE NewResult(p, a.academic_year_id, a.term, pupils[p], a.subject)
        r1 == [r0 EXCEPT ![field] = total_mark]
        ab == GetResultScores(r1, a.subject)
        cb == ComputeCombinedAndBand(ab[1], ab[2], pupils[p], a.term,
                                     a.academic_year_id, a.subject)
    IN  [r1 EXCEPT !.combined_pct = cb[1], !.summary = cb[2],
                   !.class_id_snapshot = pupils[p]]

\* sync_assessment_totals_to_results(aid): the results table afterwards
SyncAssessmentTotalsToResults(rs, sc, aid) ==
    LET a == assessments[aid]
        in_class == PupilsOfClass(pupils, a.class_id)
        keys == {<<p, a.academic_year_id, a.term, a.subject>> : p \in in_class}
    IN  {r \in rs : ResultKey(r) \notin keys}
        \cup {SyncedResult(rs, sc, aid, p) : p \in in_class}

\* the marks the model types into the score sheet: one mark per pupil, the
\* same for each question
ScoreMarks == {0, 2 * One}

\* the assessments the teachers of the model open: those of the Autumn term
\* of the seeded year
SyncTerms == {"Autumn"}
SyncYears == {1}

\* POST /assessments/<id>/scores: the sheet is saved and committed, then the
\* totals are pushed into the results.  A new score row for a (pupil,
\* question) that has a row under another assessment breaks uq_pupil_qn: the
\* request fails and writes nothing.
AssessmentScoresPost(aid, sheet) ==
    /\ pc.at = "idle"
    /\ LET a == assessments[aid]
           in_class == PupilsOfClass(pupils, a.class_id)
           q_by_id == {q.id : q \in QuestionsOf(aid)}
           replaced == {x \in scores : /\ x.assessment_id = aid
                                       /\ x.pupil_id \in in_class
                                       /\ x.question_id \in q_by_id}
           clash == {x \in scores : /\ x.assessment_id # aid
                                    /\ x.pupil_id \in in_class
                                    /\ x.question_id \in q_by_id}
           saved == (scores \ replaced)
                    \cup {[assessment_id |-> aid, pupil_id |-> p, question_id |-> q,
                           mark |-> sheet[p]] : p \in in_class, q \in q_by_id}
       IN  /\ DOMAIN sheet = in_class
           /\ IF clash # {}
              THEN /\ last' = [op |-> "scores_failed", assessment |-> aid]
                   /\ UNCHANGED <<scores, results>>
              ELSE /\ scores' = saved
                   /\ results' = SyncAssessmentTotalsToResults(results, saved, aid)
                   /\ last' = [op |-> "scores", assessment |-> aid]
    /\ UNCHANGED <<recVars, promoVars, tplVars, assessments, termconfigs, steps>>

\* the pupils of the school: one in Year 6 and one in Year 5, or two in Year 6
SyncSchools == {<<6, 5>>, <<6, 6>>}

InitSync ==
    /\ aquestions = {}
    /\ years = {[id |-> 1, label |-> StdLabel(2025, 26), is_current |-> TRUE]}
    /\ classes = SeedClasses
    /\ pupils \in SyncSchools
    /\ history = <<>>
    /\ pc = Idle
    /\ quota = [NoQuota EXCEPT !.promotions = MaxPromotions - 1]   \* one promotion
    /\ steps = 0
    /\ last = [op |-> "init"]
    /\ NoTemplates
    /\ NoAssessments

OpenAssessments ==
    {a \in DOMAIN assessments : /\ assessments[a].term \in SyncTerms
                                /\ assessments[a].academic_year_id \in SyncYears}

NextSync ==
    \/ \E c \in DashboardClasses, subject \in DashboardSubjects : Dashboard(c, subject)
    \/ \E a \in OpenAssessments, entries \in EntryLists :
          AssessmentQuestionsPost(a, entries)
    \/ \E a \in OpenAssessments :
          \E sheet \in [PupilsOfClass(pupils, assessments[a].class_id) -> ScoreMarks] :
             AssessmentScoresPost(a, sheet)
    \/ PromoteBegin
    \/ PromoteReassign

SpecSync == InitSync /\ [][NextSync]_vars

---------------------------------------------------------------------------
(* The aggregator's claims. *)

TheSynced == assessments[last.assessment]

CurrentQuestionIds == {q.id : q \in QuestionsOf(last.assessment)}

RowsOf(p) ==
    {r \in results : ResultKey(r) = <<p, TheSynced.academic_year_id,
                                      TheSynced.term, TheSynced.subject>>}

\* C9: after sync_assessment_totals_to_results(a) every pupil of a's class
\* has one Result row keyed (pupil, a.year, a.term, a.subject), and its field
\* for a's paper is the sum of the pupil's marks over a's current questions,
\* scores of questions that are gone left out; it is 0.0, not NULL, when no
\* score counts.
C9_FieldIsSumOverCurrentQuestions ==
    last.op = "scores" =>
        \A p \in DOMAIN pupils :
            pupils[p] = TheSynced.class_id =>
                /\ Cardinality(RowsOf(p)) = 1
                /\ \A r \in RowsOf(p) :
                      /\ r[ResultFieldForPaper(TheSynced.subject, TheSynced.paper)]
                            = SumScoreMarks({x \in scores :
                                                /\ x.pupil_id = p
                                                /\ x.question_id \in CurrentQuestionIds})
                      /\ r[ResultFieldForPaper(TheSynced.subject, TheSynced.paper)]
                            # NULL

\* a stale score with marks and a counted score with marks, and a pupil whose
\* questions are all gone
C9_Witness ==
    /\ last.op = "scores"
    /\ \E x \in scores :
          /\ x.assessment_id = last.assessment
          /\ pupils[x.pupil_id] = TheSynced.class_id
          /\ x.question_id \notin CurrentQuestionIds
          /\ x.mark > 0
          /\ \E y \in scores :
                /\ y.pupil_id = x.pupil_id
                /\ y.question_id \in CurrentQuestionIds
                /\ y.mark > 0

\* C10: sync_assessment_totals_to_results(a) creates or changes Result rows
\* of pupils of a's class only: the rows of the pupils of every other class
\* are as they were, those of a's year, term and subject too.
C10_OtherClassesUntouched ==
    [][last'.op = "scores" =>
          \A r \in results \cup results' :
              pupils[r.pupil_id] # assessments[last'.assessment].class_id =>
                  (r \in results /\ r \in results')]_vars

\* a pupil of another class has a row under a's key and scores under a
C10_Witness ==
    /\ last.op = "scores"
    /\ \E r \in results :
          /\ pupils[r.pupil_id] # TheSynced.class_id
          /\ r.academic_year_id = TheSynced.academic_year_id
          /\ r.term = TheSynced.term
          /\ r.subject = TheSynced.subject
          /\ \E x \in scores : /\ x.assessment_id = last.assessment
                               /\ x.pupil_id = r.pupil_id
                               /\ x.question_id \in CurrentQuestionIds
                               /\ x.mark > 0
    /\ PupilsOfClass(pupils, TheSynced.class_id) # {}


---------------------------------------------------------------------------
(* The calculators: compute_band_from_pct, compute_combined_and_band and
   get_term_max_for_paper, called on their own.  The term settings of class
   6 for the Autumn term of year 1 are drawn in the initial state; the
   arguments of each call and what it returned are kept in last. *)

MaxPct == 1200

\* percentages at, just below and just above every multiple of 5.0
PctInputs == {pct \in 0..MaxPct : pct % 50 \in {0, 1, 49}}

SubjectInputs == {"maths", " maths ", "reading", "READING", "spag", "writing"}

PaperInputs == {"Arithmetic", "Reasoning", "Paper 1", "Paper 2", "Spelling",
                "Grammar", "Paper 3"}

CalcTerms == {"Autumn", "Spring"}

\* the rows term_settings can have written: its own defaults, or the fields
\* of the other subjects left empty
TermConfigInputs ==
    {<<>>,
     <<6, 1, "Autumn">> :> [arith_max |-> 40 * One, reason_max |-> 35 * One,
                            reading_p1_max |-> NULL, reading_p2_max |-> NULL,
                            spelling_max |-> NULL, grammar_max |-> NULL],
     <<6, 1, "Autumn">> :> [arith_max |-> 50 * One, reason_max |-> 50 * One,
                            reading_p1_max |-> 50 * One,
                            reading_p2_max |-> 50 * One,
                            spelling_max |-> 20 * One,
                            grammar_max |-> 40 * One]}

ScoreInputs == {NULL, 0, 15 * One, 20 * One, 35 * One + One \div 2}

BandCall(pct, subject) ==
    /\ last' = [op |-> "band", pct |-> pct, subject |-> subject,
                out |-> ComputeBandFromPct(pct, subject)]
    /\ UNCHANGED <<recVars, promoVars, tplVars, syncVars, steps>>

CombinedCall(arith, reason, term, subject) ==
    /\ last' = [op |-> "combined", arith |-> arith, reason |-> reason,
                term |-> term, subject |-> subject,
                out |-> ComputeCombinedAndBand(arith, reason, 6, term, 1,
                                               subject)]
    /\ UNCHANGED <<recVars, promoVars, tplVars, syncVars, steps>>

TermMaxCall(term, subject, paper) ==
    /\ last' = [op |-> "term_max", term |-> term, subject |-> subject,
                paper |-> paper,
                out |-> GetTermMaxForPaper(6, 1, term, subject, paper)]
    /\ UNCHANGED <<recVars, promoVars, tplVars, syncVars, steps>>

InitCalc ==
    /\ aquestions = {}
    /\ years = {[id |-> 1, label |-> StdLabel(2025, 26), is_current |-> TRUE]}
    /\ classes = SeedClasses
    /\ pupils = [p \in 1..NPupils |-> 6]
    /\ history = <<>>
    /\ pc = Idle
    /\ quota = NoQuota
    /\ steps = 0
    /\ last = [op |-> "init"]
    /\ NoTemplates
    /\ assessments = <<>>
    /\ scores = {}
    /\ results = {}
    /\ termconfigs \in TermConfigInputs

NextCalc ==
    \/ \E pct \in PctInputs, subject \in SubjectInputs : BandCall(pct, subject)
    \/ \E arith \in ScoreInputs, reason \in ScoreInputs, term \in CalcTerms,
          subject \in SubjectInputs :
            CombinedCall(arith, reason, term, subject)
    \/ \E term \in CalcTerms, subject \in SubjectInputs, paper \in PaperInputs :
            TermMaxCall(term, subject, paper)

SpecCalc == InitCalc /\ [][NextCalc]_vars

\* C11: compute_band_from_pct puts a percentage below the subject's first
\* threshold in 'Working towards ARE', one from the first threshold up to but
\* not including the second in 'Working at ARE', and one at or above the
\* second in 'Exceeding ARE' (maths 55 and 75, reading and spag 65 and 85),
\* with no clamping of percentages above 100.
C11_BandByThreshold ==
    (last.op = "band" /\ last.subject \in {"maths", "reading", "spag"}) =>
        LET wts == IF last.subject = "maths" THEN 550 ELSE 650
            ot == IF last.subject = "maths" THEN 750 ELSE 850
        IN  /\ last.pct < wts => last.out = "Working towards ARE"
            /\ (wts <= last.pct /\ last.pct < ot) => last.out = "Working at ARE"
            /\ last.pct >= ot => last.out = "Exceeding ARE"

\* maths at exactly 55.0 is 'Working at ARE'
C11_Witness ==
    /\ last.op = "band"
    /\ last.subject = "maths"
    /\ last.pct = 550
    /\ last.out = "Working at ARE"

BandLabels == {"Working towards ARE", "Working at ARE", "Exceeding ARE"}

OrZero(score) == IF score = NULL THEN 0 ELSE score

\* C12: compute_combined_and_band returns (None, None) exactly when both
\* scores are null; otherwise it returns a percentage and one of the three
\* band labels, a missing score counting as 0 (and a score of 0 counting as a
\* score).
C12_NoneIffBothNull ==
    (last.op = "combined" /\ NormalizeSubject(last.subject) # Abort404) =>
        /\ last.out = <<NULL, "None">>
               <=> (last.arith = NULL /\ last.reason = NULL)
        /\ ~(last.arith = NULL /\ last.reason = NULL) =>
               /\ last.out[1] >= 0
               /\ last.out[2] \in BandLabels
               /\ last.out = CombinedOfScores(OrZero(last.arith),
                                              OrZero(last.reason), 6,
                                              last.term, 1, last.subject)

\* a score of 0 beside a missing score gives 0.0 percent and a band
C12_Witness ==
    /\ last.op = "combined"
    /\ last.subject = "maths"
    /\ last.arith = 0
    /\ last.reason = NULL
    /\ last.out = <<0, "Working towards ARE">>

\* a mark counted in half marks
HalfMarks(mark) == mark \div (One \div 2)

\* the two maxima the call resolved, added
ResolvedMax ==
    LET subject == NormalizeSubject(last.subject)
    IN  GetTermMaxForPaper(6, 1, last.term, subject, PAPERS[subject][1])
        + GetTermMaxForPaper(6, 1, last.term, subject, PAPERS[subject][2])

\* C13: the combined percentage is 100 * (scoreA + scoreB) / (maxA + maxB)
\* rounded to one decimal, with the maxima resolved for the class, year and
\* term: no other tenth is nearer to the quotient.  Scores 20 and 15 against
\* maxima 38 and 35 give 47.9 and 'Working towards ARE'.
C13_PctRoundedToOneDecimal ==
    (/\ last.op = "combined"
     /\ NormalizeSubject(last.subject) # Abort404
     /\ ~(last.arith = NULL /\ last.reason = NULL)) =>
        LET num == 1000 * HalfMarks(OrZero(last.arith) + OrZero(last.reason))
            den == HalfMarks(ResolvedMax)
        IN  /\ den > 0
            /\ 2 * Abs(num - last.out[1] * den) <= den
            /\ (/\ last.arith = 20 * One
                /\ last.reason = 15 * One
                /\ ResolvedMax = (38 + 35) * One) =>
                   last.out = <<479, "Working towards ARE">>

\* 20 and 15 in maths with the default maxima
C13_Witness ==
    /\ last.op = "combined"
    /\ last.subject = "maths"
    /\ last.arith = 20 * One
    /\ last.reason = 15 * One
    /\ ResolvedMax = (38 + 35) * One
    /\ last.out = <<479, "Working towards ARE">>

---------------------------------------------------------------------------
(* Direct teacher entry of results, result_new and api_results_quick_save,
   beside the aggregator. *)

\* set_result_scores
SetResultScores(r, subject, score_a, score_b) ==
    IF subject = "maths"
    THEN [r EXCEPT !.arithmetic = score_a, !.reasoning = score_b]
    ELSE IF subject = "reading"
    THEN [r EXCEPT !.reading_p1 = score_a, !.reading_p2 = score_b]
    ELSE [r EXCEPT !.spelling = score_a, !.grammar = score_b]

\* the Result row of the key, or a new one
ExistingResult(pupil_id, year_id, term, subject) ==
    LET old == {r \in results : ResultKey(r) = <<pupil_id, year_id, term, subject>>}
    IN  IF old # {} THEN CHOOSE r \in old : TRUE
        ELSE NewResult(pupil_id, year_id, term, pupils[pupil_id], subject)

\* what the forms send as a score, and float() of it: a blank clears the
\* score, text that is no number is refused
ScoreTexts == {"", "0", "2", "two"}
IsNumber(value) == value \in {"0", "2"}
Float(value) == IF value = "2" THEN 2 * One ELSE 0

\* (a variant that computes the percentage before it stores the new score)
QuickSaveStale(existing, pupil_id, year_id, term, field, v, subject) ==
    LET paper == IF field = "arithmetic" THEN PAPERS[subject][1]
                 ELSE PAPERS[subject][2]
        ab == GetResultScores(existing, subject)
        cb == ComputeCombinedAndBand(ab[1], ab[2], pupils[pupil_id], term,
                                     year_id, subject)
    IN  [existing EXCEPT ![ResultFieldForPaper(subject, paper)] = v,
                         !.updated_by_teacher_id = 1,
                         !.combined_pct = cb[1], !.summary = cb[2],
                         !.class_id_snapshot = pupils[pupil_id]]

\* api_results_quick_save from the lookup of the row on: the row it commits
QuickSave(existing, pupil_id, year_id, term, field, v, subject) ==
    LET paper == IF field = "arithmetic" THEN PAPERS[subject][1]
                 ELSE PAPERS[subject][2]
        r1 == [existing EXCEPT ![ResultFieldForPaper(subject, paper)] = v,
                               !.updated_by_teacher_id = 1]
        ab == GetResultScores(r1, subject)
        cb == ComputeCombinedAndBand(ab[1], ab[2], pupils[pupil_id], term,
                                     year_id, subject)
    IN  [r1 EXCEPT !.combined_pct = cb[1], !.summary = cb[2],
                   !.class_id_snapshot = pupils[pupil_id]]

\* POST /results/new/<pupil_id>?subject=..., by teacher 1
ResultNew(pupil_id, subject, ar, rs, year_id, term) ==
    /\ pc.at = "idle"
    /\ LET existing == ExistingResult(pupil_id, year_id, term, subject)
           cb == ComputeCombinedAndBand(ar, rs, pupils[pupil_id], term, year_id,
                                        subject)
           row == [SetResultScores(existing, subject, ar, rs)
                      EXCEPT !.updated_by_teacher_id = 1,
                             !.combined_pct = cb[1], !.summary = cb[2],
                             !.class_id_snapshot = pupils[pupil_id]]
       IN  results' = (results \ {existing}) \cup {row}
    /\ last' = [op |-> "result_new", pupil |-> pupil_id]
    /\ UNCHANGED <<recVars, promoVars, tplVars, assessments, scores,
                   termconfigs, steps>>

\* POST /api/results/quick_save, by teacher 1
ApiResultsQuickSave(pupil_id, year_id, term, field, value, subject) ==
    /\ pc.at = "idle"
    /\ term \in Range(TERMS)
    /\ field \in {"arithmetic", "reasoning"}
    /\ subject \in Range(SUBJECTS)
    /\ IF value # "" /\ ~IsNumber(value)
       THEN /\ last' = [op |-> "quick_save_refused", pupil |-> pupil_id]
            /\ UNCHANGED results
       ELSE LET v == IF value = "" THEN NULL ELSE Float(value)
                existing == ExistingResult(pupil_id, year_id, term, subject)
            IN  /\ results' = (results \ {existing})
                       \cup {QuickSave(existing, pupil_id, year_id, term, field,
                                       v, subject)}
                /\ last' = [op |-> "quick_save", pupil |-> pupil_id]
    /\ UNCHANGED <<recVars, promoVars, tplVars, assessments, scores,
                   termconfigs, steps>>

\* the scores typed into the result form
FormScores == {NULL, 0, 2 * One}

\* two pupils in Year 6, and one published template of the Autumn Arithmetic
\* paper of Year 6 with a single question
InitEntry ==
    /\ aquestions = {}
    /\ years = {[id |-> 1, label |-> StdLabel(2025, 26), is_current |-> TRUE]}
    /\ classes = SeedClasses
    /\ pupils = <<6, 6>>
    /\ history = <<>>
    /\ pc = Idle
    /\ quota = NoQuota
    /\ steps = 0
    /\ last = [op |-> "init"]
    /\ templates = {[id |-> 1, subject |-> "maths", paper |-> "Arithmetic",
                     academic_year_id |-> 1, year_group |-> 6,
                     term |-> "Autumn", version |-> 1, is_active |-> TRUE]}
    /\ tquestions = {[template_id |-> 1, number |-> 1,
                      max_mark |-> ARITH_MAX * One]}
    /\ NoAssessments

NextEntry ==
    \/ \E c \in DashboardClasses, subject \in DashboardSubjects : Dashboard(c, subject)
    \/ \E a \in OpenAssessments :
          \E sheet \in [PupilsOfClass(pupils, assessments[a].class_id) -> ScoreMarks] :
             AssessmentScoresPost(a, sheet)
    \/ \E p \in DOMAIN pupils, subject \in DashboardSubjects, ar \in FormScores,
          rs \in FormScores, y \in SyncYears, term \in SyncTerms :
             ResultNew(p, subject, ar, rs, y, term)
    \/ \E p \in DOMAIN pupils, y \in SyncYears, term \in SyncTerms,
          field \in {"arithmetic", "reasoning"}, value \in ScoreTexts,
          subject \in DashboardSubjects :
             ApiResultsQuickSave(p, y, term, field, value, subject)

SpecEntry == InitEntry /\ [][NextEntry]_vars

\* what a Result row was computed from, and what was computed
ResultInputs(r) ==
    <<r.class_id_snapshot, r.academic_year_id, r.term, r.subject,
      GetResultScores(r, r.subject)>>

ResultOutcome(r) == <<r.combined_pct, r.summary>>

\* C14: for the same class, year, term, subject and pair of paper scores, the
\* Result rows written by sync_assessment_totals_to_results, by result_new
\* and by api_results_quick_save carry the same combined_pct and the same
\* summary band.
C14_SameOutcomeOnEveryPath ==
    \A r1 \in results, r2 \in results :
        ResultInputs(r1) = ResultInputs(r2) => ResultOutcome(r1) = ResultOutcome(r2)

\* a row only the aggregator has written beside a row the quick save has just
\* written, with the same scores above zero and the same outcome
C14_Witness ==
    /\ last.op = "quick_save"
    /\ \E r1 \in results, r2 \in results :
          /\ r1.updated_by_teacher_id = NULL
          /\ r2.pupil_id = last.pupil
          /\ r2.pupil_id # r1.pupil_id
          /\ r1.arithmetic = 2 * One
          /\ ResultInputs(r1) = ResultInputs(r2)
          /\ r1.combined_pct = 27
          /\ ResultOutcome(r1) = ResultOutcome(r2)

\* C15: get_term_max_for_paper returns the TermConfig field of the (subject,
\* paper) pair when the class has a row for the year and term and the field
\* is not null, and the system default of the pair otherwise; it never raises
\* for a known pair, and every unknown pair, an unknown subject included,
\* gives 0.0 instead of a failure.
C15_TermMaxOrDefaultOrZero ==
    last.op = "term_max" =>
        LET subject == Lowered(last.subject)
            key == <<6, 1, last.term>>
            pair == PaperRows(subject, last.paper)
        IN  IF pair = {} THEN last.out = 0
            ELSE IF /\ key \in DOMAIN termconfigs
                    /\ termconfigs[key][PaperRow(subject, last.paper).cfg] # NULL
            THEN last.out = termconfigs[key][PaperRow(subject, last.paper).cfg]
            ELSE last.out = PaperRow(subject, last.paper).default * One

---------------------------------------------------------------------------
(* The writers of AcademicYear together: ensure_default_year, the two forms
   of /admin/years, the promotion and the copy of a template to the next
   year.  The school has one pupil and one template of the seeded year. *)

\* ensure_default_year, as index() and the other views call it
EnsureDefaultYear ==
    /\ pc.at = "idle"
    /\ years' = IF years = {}
                THEN {[id |-> 1, label |-> StdLabel(2025, 26), is_current |-> TRUE]}
                ELSE years
    /\ last' = [op |-> "ensure_default_year"]
    /\ UNCHANGED <<recVars, tplVars, syncVars, classes, pupils, history, pc,
                   quota, steps>>

InitYears ==
    /\ aquestions = {}
    /\ years = {[id |-> 1, label |-> StdLabel(2025, 26), is_current |-> TRUE]}
    /\ classes = SeedClasses
    /\ pupils = <<5>>
    /\ history = <<>>
    /\ pc = Idle
    /\ quota = NoQuota
    /\ steps = 0
    /\ last = [op |-> "init"]
    /\ templates = {[id |-> 1, subject |-> "maths", paper |-> "Arithmetic",
                     academic_year_id |-> 1, year_group |-> 6,
                     term |-> "Autumn", version |-> 1, is_active |-> TRUE]}
    /\ tquestions = {}
    /\ NoAssessments

NextYears ==
    \/ EnsureDefaultYear
    \/ \E label \in AdminLabels, cur \in BOOLEAN : AddYear(label, cur)
    \/ \E y \in years : SetCurrentYear(y.id)
    \/ PromoteBegin
    \/ PromoteReassign
    \/ \E t \in templates, utc_year \in UtcYears :
          GapTemplateCopyNextYear(t.id, utc_year)

SpecYears == InitYears /\ [][NextYears]_vars

\* C16: after any sequence of the operations that write AcademicYear (the
\* default year, a year added with or without 'current', set current, the
\* promotion, the copy of a template to the next year) exactly one
\* AcademicYear has is_current true.
C16_ExactlyOneCurrentYear == Cardinality(CurrentYears) = 1

\* three years or more, and the current one is no longer the seeded year
C16_Witness ==
    /\ Cardinality(years) >= 3
    /\ \E y \in years : y.id # 1 /\ CurrentYears = {y}
    /\ \E y \in years : ~y.is_current /\ y.id # 1

\* C27: saving the question list of one template version changes the
\* questions of that version only: those of every other version, versions
\* cloned from it and the version it was cloned from among them, are as
\* they were, and so is every template row.
C27_EditTouchesOneVersion ==
    [][last'.op = "template_edit" =>
        /\ templates' = templates
        /\ \A u \in templates :
              u.id # last'.template =>
                  TemplateQuestionsOf(tquestions', u.id)
                      = TemplateQuestionsOf(tquestions, u.id)
    ]_vars

\* the edited version has questions, and a neighbour version of its scope
\* has the questions it was given before: two versions that held the same
\* list and now differ
C27_Witness ==
    /\ last.op = "template_edit"
    /\ \E t, u \in templates :
          /\ t.id = last.template
          /\ SameScope(t, u)
          /\ u.version = t.version + 1
          /\ TemplateQuestionsOf(tquestions, t.id) # {}
          /\ TemplateQuestionsOf(tquestions, u.id) # {}
          /\ {[number |-> q.number, max_mark |-> q.max_mark]
                 : q \in TemplateQuestionsOf(tquestions, t.id)}
             # {[number |-> q.number, max_mark |-> q.max_mark]
                 : q \in TemplateQuestionsOf(tquestions, u.id)}

\* C29: within one scope the version numbers are unique, and a template
\* made by a new-template, new-version (from any version of the scope) or
\* copy-to-next-year request has a version greater than every version the
\* scope held.
C29_VersionsUniqueAndIncreasing ==
    [][/\ \A t, u \in templates' :
              (SameScope(t, u) /\ t.version = u.version) => t.id = u.id
       /\ \A t \in templates' :
              (\A v \in templates : v.id # t.id) =>
                  \A u \in templates : SameScope(u, t) => u.version < t.version
    ]_vars

---------------------------------------------------------------------------
(* clone_template called with either value of make_active, on the templates
   the admin forms have made. *)

CloneTemplateCall(id, make_active) ==
    /\ Cardinality(templates) < MaxTemplates
    /\ templates' = CloneTemplate(templates, TemplateById(id), make_active)
    /\ tquestions' = CopyTemplateQuestions(tquestions, id, NextKey(templates))
    /\ last' = [op |-> "clone", template |-> id, make_active |-> make_active]
    /\ UNCHANGED <<recVars, syncVars, promoVars, steps>>

NextClone ==
    \/ \E scope \in TemplateScopes, y \in years,
          copy_from_id \in {0} \cup {t.id : t \in templates} :
            GapTemplateNew(scope, y.id, copy_from_id)
    \/ \E t \in templates, qs \in TemplateQuestionLists : GapTemplateEdit(t.id, qs)
    \/ \E t \in templates, make_active \in BOOLEAN :
          CloneTemplateCall(t.id, make_active)

SpecClone == InitTpl /\ [][NextClone]_vars

\* the numbers and max marks of the questions of a template
QuestionContent(tq, id) ==
    {<<q.number, q.max_mark>> : q \in TemplateQuestionsOf(tq, id)}

\* C18: clone_template(source, make_active) adds one template, in the scope
\* of the source, with version source.version + 1 and a copy of every
\* question of the source; the new template is active and the source
\* inactive when make_active is true, and otherwise the new template is
\* inactive and no is_active flag changes.  Nothing else changes.
C18_CloneTemplate ==
    [][last'.op = "clone" =>
        LET source == TemplateById(last'.template)
        IN  \E new_t \in templates' :
               /\ \A u \in templates : u.id # new_t.id
               /\ SameScope(new_t, source)
               /\ new_t.version = source.version + 1
               /\ new_t.is_active = last'.make_active
               /\ QuestionContent(tquestions', new_t.id)
                      = QuestionContent(tquestions, source.id)
               /\ Cardinality(TemplateQuestionsOf(tquestions', new_t.id))
                      = Cardinality(TemplateQuestionsOf(tquestions, source.id))
               /\ tquestions' \ TemplateQuestionsOf(tquestions', new_t.id)
                      = tquestions
               /\ templates' \ {new_t} =
                      {IF u.id = source.id /\ last'.make_active
                       THEN [u EXCEPT !.is_active = FALSE] ELSE u
                          : u \in templates}
    ]_vars

\* an active template with questions has been cloned with make_active false:
\* it is still active and its inactive copy has the next version
C18_Witness ==
    /\ last.op = "clone"
    /\ ~last.make_active
    /\ \E source \in templates, new_t \in templates :
          /\ source.id = last.template
          /\ source.is_active
          /\ ~new_t.is_active
          /\ new_t.id # source.id
          /\ SameScope(new_t, source)
          /\ new_t.version = source.version + 1
          /\ TemplateQuestionsOf(tquestions, new_t.id) # {}

---------------------------------------------------------------------------
(* Assessments bound to a template: the dashboard, the question editor and
   the score sheet of a class whose paper has a published template. *)

NextCopyIn ==
    \/ \E c \in DashboardClasses, subject \in DashboardSubjects : Dashboard(c, subject)
    \/ \E a \in OpenAssessments, entries \in EntryLists :
          AssessmentQuestionsPost(a, entries)
    \/ \E a \in OpenAssessments :
          \E sheet \in [PupilsOfClass(pupils, assessments[a].class_id) -> ScoreMarks] :
             AssessmentScoresPost(a, sheet)

SpecCopyIn == InitEntry /\ [][NextCopyIn]_vars

\* C21: once the questions of an assessment are there, a later
\* get_or_create_assessment_for of the same class, year, term, subject and
\* paper (each view of the dashboard makes one) leaves them as they are:
\* the same rows, with their keys, numbers and max marks.
C21_CopyInHappensOnce ==
    [][last'.op = "dashboard" =>
        \A a \in DOMAIN assessments :
            QuestionsOf(a) # {} =>
                {q \in aquestions' : q.assessment_id = a} = QuestionsOf(a)
    ]_vars

---------------------------------------------------------------------------
(* The dashboard of the class beside the admin's template requests. *)

\* (new templates start without questions here: the keys of the questions
\* copied into two assessments in turn grow without end)
NextBind ==
    \/ \E c \in DashboardClasses, subject \in DashboardSubjects : Dashboard(c, subject)
    \/ \E scope \in TemplateScopes, y \in years : GapTemplateNew(scope, y.id, 0)
    \/ \E t \in templates : GapTemplatePublish(t.id)
    \/ \E t \in templates : GapTemplateNewVersion(t.id)

SpecBind == InitEntry /\ [][NextBind]_vars

AssessmentKey(a) ==
    <<a.class_id, a.academic_year_id, a.term, a.subject, a.paper>>

\* the active templates an assessment of a class with a year group can be
\* bound to
ActiveFor(a) ==
    {t \in templates :
        /\ t.is_active
        /\ t.subject = a.subject
        /\ t.paper = a.paper
        /\ t.academic_year_id = a.academic_year_id
        /\ t.term = a.term
        /\ t.year_group = classes[a.class_id].year_group}

\* C22: there is at most one Assessment per (class, academic year, term,
\* subject, paper); and right after the get_or_create_assessment_for calls
\* of a dashboard view, each assessment of the class is bound to an active
\* template of its scope, by id and version, whenever the class has a year
\* group and the scope has an active template.
C22_OneAssessmentBoundToActive ==
    /\ \A a, b \in DOMAIN assessments :
          AssessmentKey(assessments[a]) = AssessmentKey(assessments[b]) => a = b
    /\ last.op = "dashboard" =>
          \A a \in DOMAIN assessments :
              (/\ classes[assessments[a].class_id].year_group \in YearGroups
               /\ ActiveFor(assessments[a]) # {}) =>
                  \E t \in ActiveFor(assessments[a]) :
                      /\ assessments[a].template_id = t.id
                      /\ assessments[a].template_version = t.version

\* the dashboard has been viewed after a new version of the template was
\* published: the Autumn Arithmetic assessment is bound to version 2
C22_Witness ==
    /\ last.op = "dashboard"
    /\ \E a \in DOMAIN assessments :
          /\ assessments[a].template_id # 1
          /\ assessments[a].template_version = 2
          /\ \E t \in ActiveFor(assessments[a]) : t.id = assessments[a].template_id
    /\ \E a \in DOMAIN assessments : assessments[a].template_id = NULL

---------------------------------------------------------------------------
(* Copies to the next year, of templates of years with labels of every form. *)

\* labels the year form is sent: those of AdminLabels and 2026/27
CopyLabels == AdminLabels \cup {StdLabel(2026, 27)}

\* the form of a new template is sent the scope of the seeded one, and the
\* editor two questions
CopyScope == [subject |-> "maths", paper |-> "Arithmetic", year_group |-> 6,
              term |-> "Autumn"]
CopyQuestions == <<[number |-> 2, max_mark |-> One], [number |-> 4, max_mark |-> 2 * One]>>

NextCopy ==
    \/ \E label \in CopyLabels, cur \in BOOLEAN : AddYear(label, cur)
    \/ \E y \in years : GapTemplateNew(CopyScope, y.id, 0)
    \/ \E t \in templates : GapTemplateEdit(t.id, CopyQuestions)
    \/ \E t \in templates, utc_year \in UtcYears :
          GapTemplateCopyNextYear(t.id, utc_year)

SpecCopy == InitYears /\ [][NextCopy]_vars

\* the parts of C26 that hold whatever the label is: the step to the next
\* state copied template t; the years that existed and the current flags are
\* as they were, t and its questions are as they were, and the copy is the
\* only active template of its scope
CopyKeepsTheRest(t) ==
    LET cp == CHOOSE u \in templates' : \A v \in templates : v.id # u.id
    IN  /\ years \subseteq years'
        /\ \A y \in years' \ years : ~y.is_current
        /\ t \in templates'
        /\ TemplateQuestionsOf(tquestions', t.id) = TemplateQuestionsOf(tquestions, t.id)
        /\ {u \in templates' : SameScope(u, cp) /\ u.is_active} = {cp}

\* the label of the source year of t, and of the year of the copy
SourceLabel(t) == YearById(t.academic_year_id).label

---------------------------------------------------------------------------
(* Score sheets of two classes, before and after a promotion.  Class 5 has
   a published Arithmetic template with one question; class 6 has none. *)

MovedClasses == {5, 6}

InitMoved ==
    /\ aquestions = {}
    /\ years = {[id |-> 1, label |-> StdLabel(2025, 26), is_current |-> TRUE]}
    /\ classes = SeedClasses
    /\ pupils = <<6, 5>>
    /\ history = <<>>
    /\ pc = Idle
    /\ quota = [NoQuota EXCEPT !.promotions = MaxPromotions - 1]   \* one promotion
    /\ steps = 0
    /\ last = [op |-> "init"]
    /\ templates = {[id |-> 1, subject |-> "maths", paper |-> "Arithmetic",
                     academic_year_id |-> 1, year_group |-> 5,
                     term |-> "Autumn", version |-> 1, is_active |-> TRUE]}
    /\ tquestions = {[template_id |-> 1, number |-> 1,
                      max_mark |-> ARITH_MAX * One]}
    /\ NoAssessments

NextMoved ==
    \/ \E c \in MovedClasses, subject \in DashboardSubjects : Dashboard(c, subject)
    \/ \E a \in OpenAssessments :
          \E sheet \in [PupilsOfClass(pupils, assessments[a].class_id) -> ScoreMarks] :
             AssessmentScoresPost(a, sheet)
    \/ PromoteBegin
    \/ PromoteReassign

SpecMoved == InitMoved /\ [][NextMoved]_vars

\* pupil p was in class c during year y: y is the current year and p is in
\* c, or the promotion that ended y recorded (p, c, y)
WasMember(p, c, y) ==
    \/ GetCurrentYear(years) = y /\ pupils[p] = c
    \/ HasHistory(history, p, c, y)

\* C28: sync_assessment_totals_to_results(a) creates or overwrites no Result
\* of a pupil who was not in a's class during a's academic year; after a
\* promotion has moved a younger cohort into the class, the sync of an
\* assessment of the ended year leaves their Results of that year alone.
C28_OnlyMembersOfTheYear ==
    [][last'.op = "scores" =>
          \A r \in results' \ results :
              WasMember(r.pupil_id, assessments[last'.assessment].class_id,
                        assessments[last'.assessment].academic_year_id)]_vars

====
